---- MODULE Spec2Model ----
(***************************************************************************)
(* Taipei eBus scraper: the four programs of the repository that scrape,   *)
(* parse and persist route and stop data.                                  *)
(*                                                                         *)
(*   "v00003"       src/00003.py: route list, then a hard-coded batch of   *)
(*                  routes, each fetched, parsed, saved, plotted, marked.  *)
(*   "realtime"     src/專案/bus_info_project/scraper/realtime_scraper.py:  *)
(*                  route list, then the batch read back from the store.   *)
(*   "main"         src/main.py: fetch_all_routes (insert-if-absent).      *)
(*   "interactive"  src/interactive_bus_info.py: fetch and parse one       *)
(*                  route, nothing persisted.                              *)
(*                                                                         *)
(* Spec is the scripts as they run. LibSpec is a client that calls the     *)
(* classes and functions of the same four files with arguments of its own  *)
(* choice: the stop-page fetch in either direction, parse_route_info, and  *)
(* fetch_realtime_info / save_realtime_info of src/main.py.                *)
(*                                                                         *)
(* A behaviour is one program run again and again on its own store; the    *)
(* store (the SQLite tables) survives between runs, everything else is     *)
(* rebuilt. Web pages, and which I/O call raises, are the environment's    *)
(* choice.                                                                 *)
(***************************************************************************)
EXTENDS Integers, Sequences, FiniteSets, TLC

VARIABLES
    variant,        \* which program runs
    pc,             \* position of the script
    content,        \* taipei_route_list.content: the rendered route-list page
    dataframe,      \* taipei_route_list.dataframe: parsed (route_id, route_name) rows
    db_dataframe,   \* pending_routes / db_dataframe: the table as read back
    routes,         \* table data_route_list
    stops,          \* table data_route_info_busstop
    bus_list,       \* the batch of route identifiers
    idx,            \* position of the for loop in bus_list (1-based)
    info_content,   \* taipei_route_info.content: the rendered stop page
    info_dataframe, \* taipei_route_info.dataframe: parsed stop rows
    lookup,         \* interactive: what parse_route_info handed to its caller
    attempts,       \* history: per route, loop bodies entered in this run
    calls,          \* history: statuses passed to status updates that returned, this attempt
    stopsBefore,    \* history: table stops when the current attempt began
    statusBefore,   \* history: stored status of the route when the current attempt began
    idsBefore,      \* history: route ids stored before the last route-list save
    lpc,            \* library use: position of the client of the classes and functions
    route_info,     \* library use: the taipei_route_info object, or the call's arguments
    df,             \* library use: what parse_route_info / fetch_realtime_info handed back
    data_realtime_info  \* table data_realtime_info of src/main.py

\* the state of the four scripts
progVars == <<pc, content, dataframe, db_dataframe, routes, stops, bus_list, idx,
              info_content, info_dataframe, lookup, attempts, calls, stopsBefore,
              statusBefore, idsBefore>>

\* the state of a client that calls the classes and functions directly
libVars == <<lpc, route_info, df, data_realtime_info>>

vars == <<variant, progVars, libVars>>

-----------------------------------------------------------------------------
(* Bounds of the model.                                                    *)

\* longest stop page, in stop blocks
MaxStops == 2
\* longest route-list page, in anchors
MaxRoutes == 2

-----------------------------------------------------------------------------
(* Text. Captured text is a sequence of one-character strings, so that the *)
(* character classes of the patterns and Python's conversions are computed *)
(* and not assumed.                                                        *)

DigitChars == <<"0", "1", "2", "3", "4", "5", "6", "7", "8", "9">>

Digits == {DigitChars[i] : i \in 1..10}

DigitVal(c) == (CHOOSE i \in 1..10 : DigitChars[i] = c) - 1

\* the group (\d+): one or more digits
IsDigits(t) == Len(t) > 0 /\ \A i \in 1..Len(t) : t[i] \in Digits

\* the group ([\d\.]+): one or more digits or dots
IsDigitsDots(t) == Len(t) > 0 /\ \A i \in 1..Len(t) : t[i] \in Digits \cup {"."}

RECURSIVE PyInt(_)
\* int(text) of a digit string, as astype(int) computes it
PyInt(t) == IF Len(t) = 0 THEN 0
            ELSE 10 * PyInt(SubSeq(t, 1, Len(t) - 1)) + DigitVal(t[Len(t)])

DotCount(t) == Cardinality({i \in 1..Len(t) : t[i] = "."})

\* float(text) succeeds on a string of digits and dots iff it has at most one
\* dot and at least one digit; anything else raises ValueError
PyFloatOk(t) == IsDigitsDots(t) /\ DotCount(t) <= 1 /\ DotCount(t) < Len(t)

RECURSIVE Normalise(_)
\* <<mantissa, decimals>> without trailing zero decimals: 25.50 = 25.5
Normalise(f) == IF f[2] > 0 /\ f[1] % 10 = 0 THEN Normalise(<<f[1] \div 10, f[2] - 1>>)
                ELSE f

\* float(text): the value as <<mantissa, decimals>>
PyFloat(t) ==
    LET ds == SelectSeq(t, LAMBDA c : c \in Digits)
        dot == IF DotCount(t) = 0 THEN Len(t) ELSE CHOOSE i \in 1..Len(t) : t[i] = "."
        decimals == IF DotCount(t) = 0 THEN 0 ELSE Len(t) - dot
    IN [float |-> Normalise(<<PyInt(ds), decimals>>)]

IsSpace(c) == c = " "

RECURSIVE Strip(_)
\* str.strip(): leading and trailing whitespace removed
Strip(t) == IF Len(t) = 0 THEN t
            ELSE IF IsSpace(t[1]) THEN Strip(Tail(t))
            ELSE IF IsSpace(t[Len(t)]) THEN Strip(SubSeq(t, 1, Len(t) - 1))
            ELSE t

-----------------------------------------------------------------------------
(* The upstream pages: what the environment can render.                    *)

bus1 == "0161000900"

\* another identifier the route-list page can carry
bus2 == "0100000A00"

RouteIds == {bus1, bus2}

\* display names as the page carries them, one with surrounding whitespace
RawNames == {<<"C", "D">>, <<" ", "3", "0", "7", " ">>}

Anchors == [route_id : RouteIds, route_name : RawNames]

\* all sequences over S of length 0..n
SeqsUpTo(S, n) == UNION {[1..m -> S] : m \in 0..n}

\* route-list pages: a sequence of <li><a href="javascript:go('id')">name</a></li>
ListPages == SeqsUpTo(Anchors, MaxRoutes)

\* The stop blocks a page is built from. "A" and "B" are well-formed stops with
\* different values; "X" is stop A with non-numeric latitude text; "D" is stop A
\* with latitude text of digits and dots that is no numeral.
StopKinds == {"A", "B", "X", "D"}

\* arrival text "arriving" stands for the site's "進站中"
KindArrival(k) == IF k = "B" THEN "3min" ELSE "arriving"

KindName(k) == IF k = "B" THEN "StopB" ELSE "StopA"

KindStopId(k) == IF k = "B" THEN <<"7", "2">> ELSE <<"7", "1">>

KindLatitude(k) == CASE k = "A" -> <<"2", "5", ".", "0", "5">>
                     [] k = "B" -> <<"2", "5", ".", "1">>
                     [] k = "X" -> <<"a", "b", "c">>
                     [] k = "D" -> <<"1", ".", "2", ".", "3">>

KindLongitude(k) == IF k = "B" THEN <<"1", "2", "1", ".", "6">>
                    ELSE <<"1", "2", "1", ".", "5">>

\* the i-th <li> block of a page; the site numbers the stops 1, 2, 3, ... in
\* document order
Block(i, k) == [arrival_info |-> KindArrival(k),
                stop_number  |-> <<DigitChars[i + 1]>>,
                stop_name    |-> KindName(k),
                stop_id      |-> KindStopId(k),
                latitude     |-> KindLatitude(k),
                longitude    |-> KindLongitude(k)]

\* stop pages: up to MaxStops blocks
StopPages == {[i \in 1..Len(ks) |-> Block(i, ks[i])] : ks \in SeqsUpTo(StopKinds, MaxStops)}

-----------------------------------------------------------------------------
(* Record extraction.                                                      *)

\* re.findall of the route-list pattern: one (id, name) pair per anchor, both
\* groups lazy and unconstrained, so every anchor matches
FindAnchors(page) == page

\* whether the value of an <input> matches its group: (\d+) for UniStopId,
\* ([\d\.]+) for Latitude and Longitude
GroupOk(field, text) ==
    IF field = "stop_id" THEN IsDigits(text) ELSE IsDigitsDots(text)

\* first block at or after i whose field matches the group, 0 when none:
\* the reach of a lazy ".*?" under re.DOTALL, which is not held inside a block
FirstFrom(page, i, field) ==
    IF i = 0 \/ ~(\E j \in i..Len(page) : GroupOk(field, page[j][field])) THEN 0
    ELSE CHOOSE j \in i..Len(page) :
            /\ GroupOk(field, page[j][field])
            /\ \A h \in i..(j - 1) : ~GroupOk(field, page[h][field])

RECURSIVE FindStops(_, _)
\* re.findall of the six-group stop pattern from block i on. The first three
\* groups are adjacent spans of block i; UniStopId, Latitude and Longitude are
\* each reached through ".*?", so each is taken from the first block at or after
\* the previous one that has a matching <input>. The scan resumes after the
\* block that gave the longitude. Every block of StopPages has a digit
\* stop number, so the three leading spans always match at block i.
FindStops(page, i) ==
    IF i > Len(page) THEN <<>>
    ELSE LET j == FirstFrom(page, i, "stop_id")
             k == FirstFrom(page, j, "latitude")
             l == FirstFrom(page, k, "longitude")
         IN IF l = 0 THEN <<>>
            ELSE <<[arrival_info |-> page[i].arrival_info,
                    stop_number  |-> page[i].stop_number,
                    stop_name    |-> page[i].stop_name,
                    stop_id      |-> page[j].stop_id,
                    latitude     |-> page[k].latitude,
                    longitude    |-> page[l].longitude]>>
                 \o FindStops(page, l + 1)

\* what a method hands back: an exception, or a frame (sequence of rows)
Raise == [raised |-> TRUE, frame |-> <<>>]

Return(frame) == [raised |-> FALSE, frame |-> frame]

\* taipei_route_list.parse_route_list (both drivers): ValueError on no match,
\* else the (route_id, stripped route_name) rows
ParseRouteList(page) ==
    LET matches == FindAnchors(page)
    IN IF Len(matches) = 0 THEN Raise
       ELSE Return([i \in 1..Len(matches) |->
                       [route_id   |-> matches[i].route_id,
                        route_name |-> Strip(matches[i].route_name)]])

\* the direction and route columns every variant adds to the frame
Tagged(matches, route_id, direction) ==
    [i \in 1..Len(matches) |->
        [arrival_info |-> matches[i].arrival_info,
         stop_number  |-> matches[i].stop_number,
         stop_name    |-> matches[i].stop_name,
         stop_id      |-> matches[i].stop_id,
         latitude     |-> matches[i].latitude,
         longitude    |-> matches[i].longitude,
         direction    |-> direction,
         route_id     |-> route_id]]

\* 00003.py parse_route_info: ValueError on no match; every column stays text
ParseRouteInfo00003(page, route_id, direction) ==
    LET matches == FindStops(page, 1)
    IN IF Len(matches) = 0 THEN Raise
       ELSE Return(Tagged(matches, route_id, direction))

\* realtime_scraper.py parse_route_info: ValueError on no match; latitude and
\* longitude astype(float), stop_number astype(int), stop_id stays text
ParseRouteInfoRealtime(page, route_id, direction) ==
    LET matches == FindStops(page, 1)
        rows == Tagged(matches, route_id, direction)
    IN IF Len(matches) = 0 THEN Raise
       ELSE IF \E i \in 1..Len(rows) :
                  ~PyFloatOk(rows[i].latitude) \/ ~PyFloatOk(rows[i].longitude)
       THEN Raise
       ELSE Return([i \in 1..Len(rows) |->
                       [rows[i] EXCEPT !.latitude = PyFloat(@),
                                       !.longitude = PyFloat(@),
                                       !.stop_number = PyInt(@)]])

\* interactive_bus_info.py parse_route_info: on no match prints and returns an
\* empty frame; latitude and longitude astype(float)
ParseRouteInfoInteractive(page, route_id, direction) ==
    LET matches == FindStops(page, 1)
        rows == Tagged(matches, route_id, direction)
    IN IF Len(matches) = 0 THEN Return(<<>>)
       ELSE IF \E i \in 1..Len(rows) :
                  ~PyFloatOk(rows[i].latitude) \/ ~PyFloatOk(rows[i].longitude)
       THEN Raise
       ELSE Return([i \in 1..Len(rows) |->
                       [rows[i] EXCEPT !.latitude = PyFloat(@),
                                       !.longitude = PyFloat(@)]])

\* The Python type of the cells of each numeric column in the frame that
\* parse_route_info returns: the regex groups are str, and a column changes its
\* type only by astype. realtime_scraper.py converts latitude, longitude and
\* stop_number; interactive_bus_info.py latitude and longitude; 00003.py none.
RouteInfoDtypes(v) ==
    [stop_number |-> IF v = "realtime" THEN "int" ELSE "str",
     stop_id     |-> "str",
     latitude    |-> IF v \in {"realtime", "interactive"} THEN "float" ELSE "str",
     longitude   |-> IF v \in {"realtime", "interactive"} THEN "float" ELSE "str"]

\* parse_route_info of the class the running program uses
ParseRouteInfo(v, page, route_id, direction) ==
    CASE v = "v00003"      -> ParseRouteInfo00003(page, route_id, direction)
      [] v = "realtime"    -> ParseRouteInfoRealtime(page, route_id, direction)
      [] v = "interactive" -> ParseRouteInfoInteractive(page, route_id, direction)

-----------------------------------------------------------------------------
(* The store.                                                              *)

\* route_data_updated as stored: 00003.py keeps an Integer column (0, 1, 2),
\* realtime_scraper.py an Enum(RouteStatus) column stored by member name
StatusValue(v, name) ==
    IF v = "v00003"
    THEN CASE name = "pending" -> 0 [] name = "updated" -> 1 [] name = "failed" -> 2
    ELSE name

\* a new row of data_route_list: the column default is pending; the RouteList
\* class of main.py has no status column
NewRouteRow(v, rec) ==
    IF v = "main" THEN [route_id |-> rec.route_id, route_name |-> rec.route_name]
    ELSE [route_id |-> rec.route_id, route_name |-> rec.route_name,
          route_data_updated |-> StatusValue(v, "pending")]

HasRoute(table, route_id) == \E r \in table : r.route_id = route_id

\* faulty alternative: the merge writes the column default over the stored status
MergeRouteResetsStatus(v, table, rec) ==
    {r \in table : r.route_id # rec.route_id} \cup {NewRouteRow(v, rec)}

\* faulty alternative: the merge leaves a stored row as it is
MergeRouteKeepsName(v, table, rec) ==
    IF HasRoute(table, rec.route_id) THEN table ELSE table \cup {NewRouteRow(v, rec)}

\* faulty alternative: the merge also writes the status column, as pending
MergeRouteWritesPending(v, table, rec) ==
    IF HasRoute(table, rec.route_id)
    THEN {IF r.route_id = rec.route_id
          THEN [r EXCEPT !.route_name = rec.route_name,
                         !.route_data_updated = StatusValue(v, "pending")]
          ELSE r : r \in table}
    ELSE table \cup {NewRouteRow(v, rec)}

\* session.merge(RouteORM(route_id=..., route_name=...)): the stored row with the
\* same primary key takes the attributes set on the given object, which are the
\* identifier and the name only; without such a row one is inserted
MergeRoute(v, table, rec) ==
    IF HasRoute(table, rec.route_id)
    THEN {IF r.route_id = rec.route_id THEN [r EXCEPT !.route_name = rec.route_name] ELSE r :
            r \in table}
    ELSE table \cup {NewRouteRow(v, rec)}

RECURSIVE SaveRoutes(_, _, _)
\* taipei_route_list.save_to_database: merge every row of the frame in order,
\* then commit
SaveRoutes(v, table, frame) ==
    IF Len(frame) = 0 THEN table
    ELSE SaveRoutes(v, MergeRoute(v, table, Head(frame)), Tail(frame))

\* main.py fetch_all_routes, one match: add the route only when no row with
\* its identifier exists (the query autoflushes earlier adds)
AddRouteIfAbsent(v, table, rec) ==
    IF HasRoute(table, rec.route_id) THEN table
    ELSE table \cup {NewRouteRow(v, rec)}

RECURSIVE AddRoutes(_, _, _)
\* main.py fetch_all_routes, the loop over the matches and the commit
AddRoutes(v, table, frame) ==
    IF Len(frame) = 0 THEN table
    ELSE AddRoutes(v, AddRouteIfAbsent(v, table, Head(frame)), Tail(frame))

\* query(orm).filter_by(route_id=...).update({"route_data_updated": s}); commit
SetStatus(table, route_id, s) ==
    {IF r.route_id = route_id THEN [r EXCEPT !.route_data_updated = s] ELSE r : r \in table}

\* faulty alternative: the success path writes the failure flag
SetRouteDataUpdatedWrongFlag(v, table, route_id) ==
    SetStatus(table, route_id, StatusValue(v, "failed"))

\* set_route_data_updated / set_route_status(updated)
SetRouteDataUpdated(v, table, route_id) ==
    SetStatus(table, route_id, StatusValue(v, "updated"))

\* set_route_data_unexcepted / set_route_status(failed)
SetRouteDataUnexcepted(v, table, route_id) ==
    SetStatus(table, route_id, StatusValue(v, "failed"))

\* Whether the frame's values can be bound to the Stop columns. The Float
\* columns bind through float(value) on SQLite, which raises on text that is
\* no numeral; the realtime frame already holds floats.
StopsBindOk(v, frame) ==
    v = "v00003" =>
        \A i \in 1..Len(frame) : PyFloatOk(frame[i].latitude) /\ PyFloatOk(frame[i].longitude)

\* The row as stored: Float columns hold float(value); the Integer columns hold
\* the integer a digit string denotes (SQLite column affinity).
StopRow(v, rec) ==
    IF v = "v00003"
    THEN [rec EXCEPT !.stop_number = PyInt(@), !.stop_id = PyInt(@),
                     !.latitude = PyFloat(@), !.longitude = PyFloat(@)]
    ELSE [rec EXCEPT !.stop_id = PyInt(@)]

\* primary key of data_route_info_busstop
StopKey(row) == <<row.route_id, row.direction, row.stop_number>>

\* faulty alternative: the merge leaves a stored row as it is
MergeStopKeepsOld(table, row) ==
    IF \E r \in table : StopKey(r) = StopKey(row) THEN table ELSE table \cup {row}

\* faulty alternative: the merge replaces every row of the route and direction
MergeStopReplacesRoute(table, row) ==
    {r \in table : r.route_id # row.route_id \/ r.direction # row.direction} \cup {row}

\* session.merge(StopORM(...all eight columns...)): the stored row with the same
\* primary key is overwritten, else the row is inserted
MergeStop(table, row) ==
    {r \in table : StopKey(r) # StopKey(row)} \cup {row}

\* faulty alternative: the commit follows the first merge and the rest is lost
SaveStopsFirstRow(v, table, frame) ==
    IF Len(frame) = 0 THEN table ELSE MergeStop(table, StopRow(v, Head(frame)))

RECURSIVE SaveStops(_, _, _)
\* taipei_route_info.save_to_database: merge every row of the frame in order,
\* then commit
SaveStops(v, table, frame) ==
    IF Len(frame) = 0 THEN table
    ELSE SaveStops(v, MergeStop(table, StopRow(v, Head(frame))), Tail(frame))

\* A cell of a frame read back with pd.read_sql, tagged with its Python type:
\* the Enum column comes back as RouteStatus members, the Integer column as int
ReadStatus(v, stored) ==
    IF v = "realtime" THEN [type |-> "RouteStatus", value |-> stored]
    ELSE [type |-> "int", value |-> stored]

PyStr(s) == [type |-> "str", value |-> s]

\* Python ==: values of unrelated types are never equal; RouteStatus is a plain
\* enum.Enum, whose members equal only themselves
PyEq(a, b) == a.type = b.type /\ a.value = b.value

\* all orders in which the rows of a table can be read
Orders(table) ==
    {q \in [1..Cardinality(table) -> table] : \A r \in table : \E i \in DOMAIN q : q[i] = r}

\* read_from_database: every row of data_route_list, in the order the engine
\* yields them
ReadFromDatabase(v, order) ==
    [i \in 1..Len(order) |->
        [route_id |-> order[i].route_id, route_name |-> order[i].route_name,
         route_data_updated |-> ReadStatus(v, order[i].route_data_updated)]]

RECURSIVE PendingIds(_)
\* pending_routes[pending_routes['route_data_updated'] == 'pending']['route_id'].tolist()
PendingIds(frame) ==
    IF Len(frame) = 0 THEN <<>>
    ELSE (IF PyEq(Head(frame).route_data_updated, PyStr("pending"))
          THEN <<Head(frame).route_id>> ELSE <<>>) \o PendingIds(Tail(frame))

-----------------------------------------------------------------------------
(* The programs.                                                           *)

Variants == {"v00003", "realtime", "main", "interactive"}

Driver == variant \in {"v00003", "realtime"}

NoAttempts == [r \in RouteIds |-> 0]

NoLookup == [raised |-> FALSE, frame |-> <<>>]

\* no taipei_route_info object yet
NoObject == [direction |-> "none", content |-> <<>>, goto |-> FALSE, click_failed |-> FALSE]

\* the route the loop body is working on
CurRoute == bus_list[idx]

\* stored status of a route under its symbolic name, "absent" without a row
\* (and in main.py's table, which has no status column)
StatusOf(table, route_id) ==
    IF ~Driver \/ ~HasRoute(table, route_id) THEN "absent"
    ELSE LET s == (CHOOSE r \in table : r.route_id = route_id).route_data_updated
         IN CASE s = StatusValue(variant, "pending") -> "pending"
              [] s = StatusValue(variant, "updated") -> "updated"
              [] s = StatusValue(variant, "failed")  -> "failed"

Init ==
    /\ variant \in Variants
    /\ pc = "start"
    /\ content = <<>>
    /\ dataframe = <<>>
    /\ db_dataframe = <<>>
    /\ routes = {}
    /\ stops = {}
    /\ bus_list = <<>>
    /\ idx = 1
    /\ info_content = <<>>
    /\ info_dataframe = <<>>
    /\ lookup = NoLookup
    /\ attempts = NoAttempts
    /\ calls = <<>>
    /\ stopsBefore = {}
    /\ statusBefore = "absent"
    /\ idsBefore = {}
    /\ lpc = "start"
    /\ route_info = NoObject
    /\ df = NoLookup
    /\ data_realtime_info = {}

\* taipei_route_list(): the constructor renders the route-list page
route_list_init ==
    /\ Driver /\ pc = "start"
    /\ \E page \in ListPages : content' = page
    /\ pc' = "listFetched"
    /\ UNCHANGED <<variant, dataframe, db_dataframe, routes, stops, bus_list, idx,
                   info_content, info_dataframe, lookup, attempts, calls, stopsBefore,
                   statusBefore, idsBefore>>
    /\ UNCHANGED libVars

\* route_list.parse_route_list(): its ValueError is caught by nothing
parse_route_list ==
    /\ Driver /\ pc = "listFetched"
    /\ LET r == ParseRouteList(content)
       IN /\ dataframe' = r.frame
          /\ pc' = IF r.raised THEN "crashed" ELSE "listParsed"
    /\ UNCHANGED <<variant, content, db_dataframe, routes, stops, bus_list, idx,
                   info_content, info_dataframe, lookup, attempts, calls, stopsBefore,
                   statusBefore, idsBefore>>
    /\ UNCHANGED libVars

\* route_list.save_to_database()
route_list_save_to_database ==
    /\ Driver /\ pc = "listParsed"
    /\ routes' = SaveRoutes(variant, routes, dataframe)
    /\ idsBefore' = {r.route_id : r \in routes}
    /\ pc' = "listSaved"
    /\ UNCHANGED <<variant, content, dataframe, db_dataframe, stops, bus_list, idx,
                   info_content, info_dataframe, lookup, attempts, calls, stopsBefore,
                   statusBefore>>
    /\ UNCHANGED libVars

\* 00003.py: bus_list = [bus1]. The list page and its frame are not read again
\* by the script, so they are dropped here.
hard_coded_batch ==
    /\ variant = "v00003" /\ pc = "listSaved"
    /\ bus_list' = <<bus1>>
    /\ idx' = 1
    /\ pc' = "loop"
    /\ content' = <<>> /\ dataframe' = <<>> /\ idsBefore' = {}
    /\ UNCHANGED <<variant, db_dataframe, routes, stops,
                   info_content, info_dataframe, lookup, attempts, calls, stopsBefore,
                   statusBefore>>
    /\ UNCHANGED libVars

\* realtime_scraper.py: pending_routes = route_list.read_from_database()
read_from_database ==
    /\ variant = "realtime" /\ pc = "listSaved"
    /\ \E order \in Orders(routes) : db_dataframe' = ReadFromDatabase(variant, order)
    /\ pc' = "readBack"
    /\ UNCHANGED <<variant, content, dataframe, routes, stops, bus_list, idx,
                   info_content, info_dataframe, lookup, attempts, calls, stopsBefore,
                   statusBefore, idsBefore>>
    /\ UNCHANGED libVars

\* realtime_scraper.py: bus_list = the route_id column of the rows whose status
\* cell equals 'pending'. The list page and the frames are not read again by
\* the script, so they are dropped here.
pending_selection ==
    /\ variant = "realtime" /\ pc = "readBack"
    /\ bus_list' = PendingIds(db_dataframe)
    /\ idx' = 1
    /\ pc' = "loop"
    /\ content' = <<>> /\ dataframe' = <<>> /\ db_dataframe' = <<>> /\ idsBefore' = {}
    /\ UNCHANGED <<variant, routes, stops,
                   info_content, info_dataframe, lookup, attempts, calls, stopsBefore,
                   statusBefore>>
    /\ UNCHANGED libVars

\* for route_id in bus_list: try: taipei_route_info(route_id, direction="go").
\* The constructor renders the stop page; the browser can raise.
route_info_init ==
    /\ Driver /\ pc = "loop" /\ idx <= Len(bus_list)
    /\ attempts' = [attempts EXCEPT ![CurRoute] = @ + 1]
    /\ calls' = <<>>
    /\ stopsBefore' = stops
    /\ statusBefore' = StatusOf(routes, CurRoute)
    /\ \/ \E page \in StopPages : info_content' = page /\ pc' = "fetched"
       \/ info_content' = <<>> /\ pc' = "except"
    /\ UNCHANGED <<variant, content, dataframe, db_dataframe, routes, stops, bus_list, idx,
                   info_dataframe, lookup, idsBefore>>
    /\ UNCHANGED libVars

\* route_info.parse_route_info()
parse_route_info ==
    /\ Driver /\ pc = "fetched"
    /\ LET r == ParseRouteInfo(variant, info_content, CurRoute, "go")
       IN /\ info_dataframe' = r.frame
          /\ pc' = IF r.raised THEN "except" ELSE "parsed"
    /\ UNCHANGED <<variant, content, dataframe, db_dataframe, routes, stops, bus_list, idx,
                   info_content, lookup, attempts, calls, stopsBefore, statusBefore,
                   idsBefore>>
    /\ UNCHANGED libVars

\* route_info.save_to_database(): all rows are committed together, or the call
\* raises (a value that cannot be bound, or the engine) and none is
route_info_save_to_database ==
    /\ Driver /\ pc = "parsed"
    /\ \/ /\ StopsBindOk(variant, info_dataframe)
          /\ stops' = SaveStops(variant, stops, info_dataframe)
          /\ pc' = "saved"
       \/ /\ stops' = stops
          /\ pc' = "except"
    /\ UNCHANGED <<variant, content, dataframe, db_dataframe, routes, bus_list, idx,
                   info_content, info_dataframe, lookup, attempts, calls, stopsBefore,
                   statusBefore, idsBefore>>
    /\ UNCHANGED libVars

\* 00003.py: route_info.plot_route_map(map_path, 70). It reads the basemap and
\* two image files at fixed paths and writes the figure; any of these can raise.
plot_route_map ==
    /\ variant = "v00003" /\ pc = "saved"
    /\ \E ok \in BOOLEAN : pc' = IF ok THEN "plotted" ELSE "except"
    /\ UNCHANGED <<variant, content, dataframe, db_dataframe, routes, stops, bus_list, idx,
                   info_content, info_dataframe, lookup, attempts, calls, stopsBefore,
                   statusBefore, idsBefore>>
    /\ UNCHANGED libVars

\* last statement of the try block: route_list.set_route_data_updated(route_id)
\* (00003.py, after the plot) or set_route_status(route_id, RouteStatus.updated)
set_route_data_updated ==
    /\ Driver /\ pc = (IF variant = "v00003" THEN "plotted" ELSE "saved")
    /\ \/ /\ routes' = SetRouteDataUpdated(variant, routes, CurRoute)
          /\ calls' = Append(calls, "updated")
          /\ pc' = "attempted"
       \/ /\ UNCHANGED <<routes, calls>>
          /\ pc' = "except"
    /\ UNCHANGED <<variant, content, dataframe, db_dataframe, stops, bus_list, idx,
                   info_content, info_dataframe, lookup, attempts, stopsBefore,
                   statusBefore, idsBefore>>
    /\ UNCHANGED libVars

\* except Exception: route_list.set_route_data_unexcepted(route_id) or
\* set_route_status(route_id, RouteStatus.failed). The handler is the last line
\* of the loop body and is itself inside no try: when it raises, the script ends.
set_route_data_unexcepted ==
    /\ Driver /\ pc = "except"
    /\ \/ /\ routes' = SetRouteDataUnexcepted(variant, routes, CurRoute)
          /\ calls' = Append(calls, "failed")
          /\ pc' = "attempted"
       \/ /\ UNCHANGED <<routes, calls>>
          /\ pc' = "aborted"
    /\ UNCHANGED <<variant, content, dataframe, db_dataframe, stops, bus_list, idx,
                   info_content, info_dataframe, lookup, attempts, stopsBefore,
                   statusBefore, idsBefore>>
    /\ UNCHANGED libVars

\* the for loop takes the next route
next_route ==
    /\ Driver /\ pc = "attempted"
    /\ idx' = idx + 1
    /\ pc' = "loop"
    /\ info_content' = <<>>
    /\ info_dataframe' = <<>>
    /\ UNCHANGED <<variant, content, dataframe, db_dataframe, routes, stops, bus_list,
                   lookup, attempts, calls, stopsBefore, statusBefore, idsBefore>>
    /\ UNCHANGED libVars

\* the for loop is exhausted and the script ends
loop_end ==
    /\ Driver /\ pc = "loop" /\ idx > Len(bus_list)
    /\ pc' = "done"
    /\ UNCHANGED <<variant, content, dataframe, db_dataframe, routes, stops, bus_list, idx,
                   info_content, info_dataframe, lookup, attempts, calls, stopsBefore,
                   statusBefore, idsBefore>>
    /\ UNCHANGED libVars

\* main.py fetch_all_routes(): render, match, ValueError on no match, add the
\* routes not yet stored, commit
fetch_all_routes ==
    /\ variant = "main" /\ pc = "start"
    /\ \E page \in ListPages :
          LET r == ParseRouteList(page)
          IN /\ content' = page
             /\ dataframe' = r.frame
             /\ routes' = IF r.raised THEN routes ELSE AddRoutes(variant, routes, r.frame)
             /\ pc' = IF r.raised THEN "crashed" ELSE "listSaved"
    /\ idsBefore' = {r.route_id : r \in routes}
    /\ UNCHANGED <<variant, db_dataframe, stops, bus_list, idx, info_content,
                   info_dataframe, lookup, attempts, calls, stopsBefore, statusBefore>>
    /\ UNCHANGED libVars

\* interactive_bus_info.py interactive_interface(): taipei_route_info(route_id,
\* direction), fetch_route_info(), df = parse_route_info()
interactive_lookup ==
    /\ variant = "interactive" /\ pc = "start"
    /\ \E page \in StopPages, direction \in {"go", "come"} :
          /\ info_content' = page
          /\ lookup' = ParseRouteInfo(variant, page, bus1, direction)
    /\ pc' = "done"
    /\ UNCHANGED <<variant, content, dataframe, db_dataframe, routes, stops, bus_list, idx,
                   info_dataframe, attempts, calls, stopsBefore, statusBefore, idsBefore>>
    /\ UNCHANGED libVars

\* The program is started again: a new process on the same store.
rerun ==
    /\ \/ pc \in {"done", "aborted", "crashed"}
       \/ variant = "main" /\ pc = "listSaved"
    /\ pc' = "start"
    /\ content' = <<>>
    /\ dataframe' = <<>>
    /\ db_dataframe' = <<>>
    /\ bus_list' = <<>>
    /\ idx' = 1
    /\ info_content' = <<>>
    /\ info_dataframe' = <<>>
    /\ lookup' = NoLookup
    /\ attempts' = NoAttempts
    /\ calls' = <<>>
    /\ stopsBefore' = {}
    /\ statusBefore' = "absent"
    /\ idsBefore' = {}
    /\ UNCHANGED <<variant, routes, stops>>
    /\ UNCHANGED libVars

Next ==
    \/ route_list_init
    \/ parse_route_list
    \/ route_list_save_to_database
    \/ hard_coded_batch
    \/ read_from_database
    \/ pending_selection
    \/ route_info_init
    \/ parse_route_info
    \/ route_info_save_to_database
    \/ plot_route_map
    \/ set_route_data_updated
    \/ set_route_data_unexcepted
    \/ next_route
    \/ loop_end
    \/ fetch_all_routes
    \/ interactive_lookup
    \/ rerun

Spec == Init /\ [][Next]_vars

-----------------------------------------------------------------------------
(* Library use: the classes and functions called by a client.              *)

\* what a caller can pass as direction: the two directions and another string
Directions == {"go", "come", "back"}

\* taipei_route_info.__init__ up to the fetch: 00003.py and realtime_scraper.py
\* raise ValueError unless direction is 'go' or 'come'; interactive_bus_info.py
\* stores the direction unchecked
InitRaises(v, direction) ==
    v \in {"v00003", "realtime"} /\ direction \notin {"go", "come"}

\* whether page.click on the inbound toggle is reached: only for 'come'
Clicks(direction) == direction = "come"

\* The stop-page fetch, given whether the toggle can be clicked. page.click
\* raises (TimeoutError) when the toggle is absent or the click fails. Only
\* interactive_bus_info.py wraps the click in try/except and goes on to
\* page.content(); in the others the exception leaves the function and no
\* content is returned.
FetchContent(v, direction, click_ok, page) ==
    IF Clicks(direction) /\ ~click_ok /\ v # "interactive"
    THEN [raised |-> TRUE, content |-> <<>>]
    ELSE [raised |-> FALSE, content |-> page]

\* the object after its fetch, with the history of the call
Fetched(v, direction, click_ok, page) ==
    [direction    |-> direction,
     content      |-> FetchContent(v, direction, click_ok, page).content,
     goto         |-> TRUE,
     click_failed |-> Clicks(direction) /\ ~click_ok]

\* taipei_route_info(route_id, direction): 00003.py and realtime_scraper.py
\* check the direction and fetch in the constructor; interactive_bus_info.py
\* only stores its arguments
taipei_route_info_init ==
    /\ variant \in {"v00003", "realtime", "interactive"} /\ lpc = "start"
    /\ \E direction \in Directions, click_ok \in BOOLEAN, page \in StopPages :
          IF variant = "interactive"
          THEN /\ route_info' = [NoObject EXCEPT !.direction = direction]
               /\ lpc' = "constructed"
          ELSE IF InitRaises(variant, direction)
          THEN /\ route_info' = [NoObject EXCEPT !.direction = direction]
               /\ lpc' = "init_raised"
          ELSE /\ route_info' = Fetched(variant, direction, click_ok, page)
               /\ lpc' = IF FetchContent(variant, direction, click_ok, page).raised
                          THEN "fetch_raised" ELSE "fetched"
    /\ UNCHANGED <<variant, progVars, df, data_realtime_info>>

\* interactive_bus_info.py: route_info.fetch_route_info()
fetch_route_info ==
    /\ variant = "interactive" /\ lpc = "constructed"
    /\ \E click_ok \in BOOLEAN, page \in StopPages :
          /\ route_info' = Fetched(variant, route_info.direction, click_ok, page)
          /\ lpc' = IF FetchContent(variant, route_info.direction, click_ok, page).raised
                     THEN "fetch_raised" ELSE "fetched"
    /\ UNCHANGED <<variant, progVars, df, data_realtime_info>>

\* route_info.parse_route_info() of the three classes
taipei_route_info_parse ==
    /\ variant \in {"v00003", "realtime", "interactive"} /\ lpc = "fetched"
    /\ df' = ParseRouteInfo(variant, route_info.content, bus1, route_info.direction)
    /\ lpc' = IF df'.raised THEN "parse_raised" ELSE "parsed"
    /\ UNCHANGED <<variant, progVars, route_info, data_realtime_info>>

\* whether every <input> of the block holds a numeral its group matches
WellFormedBlock(b) ==
    /\ IsDigits(b.stop_number)
    /\ IsDigits(b.stop_id)
    /\ PyFloatOk(b.latitude)
    /\ PyFloatOk(b.longitude)

\* the stop pages whose blocks are all well-formed
WellFormedPages == {page \in StopPages : \A i \in 1..Len(page) : WellFormedBlock(page[i])}

\* main.py fetch_realtime_info: findall of the three-group pattern (arrival,
\* number, name). The three spans are adjacent in a block and every block of
\* StopPages has a digit stop number, so every block gives one match.
FindSamples(page) ==
    [i \in 1..Len(page) |-> [arrival_info |-> page[i].arrival_info,
                             stop_number  |-> page[i].stop_number,
                             stop_name    |-> page[i].stop_name]]

\* main.py fetch_realtime_info(route_id, direction): the click on the inbound
\* toggle is not guarded; ValueError on no match; stop_number astype(int)
FetchRealtimeInfo(route_id, direction, click_ok, page) ==
    LET fetched == FetchContent("main", direction, click_ok, page)
        matches == FindSamples(fetched.content)
    IN IF fetched.raised \/ Len(matches) = 0 THEN Raise
       ELSE Return([i \in 1..Len(matches) |->
                       [arrival_info |-> matches[i].arrival_info,
                        stop_number  |-> PyInt(matches[i].stop_number),
                        stop_name    |-> matches[i].stop_name,
                        direction    |-> direction,
                        route_id     |-> route_id]])

\* RealtimeInfo.id: Integer primary key with autoincrement, on SQLite the rowid,
\* one more than the largest id stored
NextId(table) ==
    IF table = {} THEN 1
    ELSE (CHOOSE i \in {r.id : r \in table} : \A r \in table : r.id <= i) + 1

\* faulty alternative: the row replaces a stored sample of the same route,
\* direction and stop number
AddRealtimeInfoUpsert(table, row) ==
    {r \in table : ~(/\ r.route_id = row.route_id
                      /\ r.direction = row.direction
                      /\ r.stop_number = row.stop_number)}
      \cup {[id           |-> NextId(table),
              route_id     |-> row.route_id,
              direction    |-> row.direction,
              stop_number  |-> row.stop_number,
              stop_name    |-> row.stop_name,
              arrival_info |-> row.arrival_info]}

\* session.add(RealtimeInfo(...)) of one row of the frame
AddRealtimeInfo(table, row) ==
    table \cup {[id           |-> NextId(table),
                 route_id     |-> row.route_id,
                 direction    |-> row.direction,
                 stop_number  |-> row.stop_number,
                 stop_name    |-> row.stop_name,
                 arrival_info |-> row.arrival_info]}

RECURSIVE SaveRealtimeInfo(_, _)
\* main.py save_realtime_info(df): add every row of the frame in order, then
\* commit
SaveRealtimeInfo(table, frame) ==
    IF Len(frame) = 0 THEN table
    ELSE SaveRealtimeInfo(AddRealtimeInfo(table, Head(frame)), Tail(frame))

\* main.py: df = fetch_realtime_info(route_id, direction). The pattern reads no
\* <input>, so the well-formed pages give every frame it can return.
fetch_realtime_info ==
    /\ variant = "main" /\ lpc = "start"
    /\ \E direction \in Directions, click_ok \in BOOLEAN, page \in WellFormedPages :
          /\ df' = FetchRealtimeInfo(bus1, direction, click_ok, page)
          /\ route_info' = [Fetched("main", direction, click_ok, page) EXCEPT !.content = <<>>]
          /\ lpc' = IF FetchContent("main", direction, click_ok, page).raised THEN "fetch_raised"
                     ELSE IF df'.raised THEN "parse_raised" ELSE "parsed"
    /\ UNCHANGED <<variant, progVars, data_realtime_info>>

\* main.py: save_realtime_info(df). The table is kept small: no save once it
\* holds MaxStops rows or more.
save_realtime_info ==
    /\ variant = "main" /\ lpc = "parsed"
    /\ Cardinality(data_realtime_info) < MaxStops
    /\ data_realtime_info' = SaveRealtimeInfo(data_realtime_info, df.frame)
    /\ lpc' = "saved"
    /\ UNCHANGED <<variant, progVars, route_info, df>>

\* the client is done with its object or frame and makes another call on the
\* same store
another_call ==
    /\ lpc \in {"init_raised", "fetch_raised", "parse_raised", "parsed", "saved"}
    /\ lpc' = "start"
    /\ route_info' = NoObject
    /\ df' = NoLookup
    /\ UNCHANGED <<variant, progVars, data_realtime_info>>

LibNext ==
    \/ taipei_route_info_init
    \/ fetch_route_info
    \/ taipei_route_info_parse
    \/ fetch_realtime_info
    \/ save_realtime_info
    \/ another_call

LibSpec == Init /\ [][LibNext]_vars

-----------------------------------------------------------------------------
(* Properties.                                                             *)

\* the Stop rows stored for one route and direction
RowsOf(table, route_id, direction) ==
    {r \in table : r.route_id = route_id /\ r.direction = direction}

\* the rows the current frame binds to, and their keys
FrameRows == {StopRow(variant, info_dataframe[i]) : i \in 1..Len(info_dataframe)}

FrameKeys == {StopKey(row) : row \in FrameRows}

\* the row of the last record of the current frame that has the given key
LastFrameRow(key) ==
    StopRow(variant, info_dataframe[
        CHOOSE i \in 1..Len(info_dataframe) :
            /\ StopKey(StopRow(variant, info_dataframe[i])) = key
            /\ \A j \in (i + 1)..Len(info_dataframe) :
                  StopKey(StopRow(variant, info_dataframe[j])) # key])

\* the name of the last row of the route-list frame that has the given identifier
LastName(frame, route_id) ==
    frame[CHOOSE i \in 1..Len(frame) :
            /\ frame[i].route_id = route_id
            /\ \A j \in (i + 1)..Len(frame) : frame[j].route_id # route_id].route_name

FrameIds(frame) == {frame[i].route_id : i \in 1..Len(frame)}

FramePairs(frame) == {<<frame[i].route_id, frame[i].route_name>> : i \in 1..Len(frame)}

\* C1: the driver loop never ends by an exception, and when it has ended every
\* route of the batch was attempted exactly once.
C1_BatchNeverAborted ==
    /\ pc # "aborted"
    /\ pc = "done" => \A i \in 1..Len(bus_list) : attempts[bus_list[i]] = 1

\* C2 as the specification states it: a stored status changes only from pending
\* to updated or from pending to failed.
C2_OnlyFromPending ==
    [][\A r \in RouteIds :
          (StatusOf(routes, r) # "absent" /\ StatusOf(routes', r) # StatusOf(routes, r))
             => /\ StatusOf(routes, r) = "pending"
                /\ StatusOf(routes', r) \in {"updated", "failed"}]_vars

\* C2 as amended: a status is created as pending by the route-list save, and is
\* otherwise changed only by the first status update of a scrape attempt, for
\* the route being attempted, to updated or failed, whatever it was before; it
\* is never set back to pending.
C2_StatusWrites ==
    [][\A r \in RouteIds :
          StatusOf(routes', r) # StatusOf(routes, r)
             => \/ /\ StatusOf(routes, r) = "absent"
                   /\ StatusOf(routes', r) = "pending"
                   /\ pc' = "listSaved"
                \/ /\ StatusOf(routes, r) # "absent"
                   /\ pc' = "attempted"
                   /\ r = CurRoute
                   /\ StatusOf(routes', r) \in {"updated", "failed"}
                   /\ calls = <<>>
                   /\ calls' = <<StatusOf(routes', r)>>]_vars

\* C2 witness: a re-run has overwritten an earlier outcome.
C2_Overwritten ==
    /\ pc = "attempted"
    /\ statusBefore = "updated"
    /\ calls = <<"failed">>
    /\ StatusOf(routes, CurRoute) = "failed"

\* C3 as the specification states it: after an attempt, status failed means that
\* no Stop row of the attempt was written, and status updated means that every
\* parsed row was.
C3_FailedMeansNothingWritten ==
    pc = "attempted" =>
        /\ calls = <<"failed">> => stops = stopsBefore
        /\ calls = <<"updated">> => FrameRows \subseteq stops

\* C3 as amended: the Stop rows of an attempt are written all or none; status
\* updated means that all were; status failed goes with none (a failure up to the
\* save) or with all (a failure after the save: the plot or the status update).
C3_AllOrNone ==
    pc = "attempted" =>
        /\ \/ stops = stopsBefore
           \/ /\ Len(info_dataframe) > 0
              /\ FrameRows \subseteq stops
              /\ \A r \in stops : StopKey(r) \notin FrameKeys => r \in stopsBefore
        /\ calls = <<"updated">> => (Len(info_dataframe) > 0 /\ FrameRows \subseteq stops)

\* C3 witness: an attempt ended failed with its rows committed.
C3_FailedAfterSave ==
    /\ pc = "attempted"
    /\ calls = <<"failed">>
    /\ Len(info_dataframe) = 2
    /\ FrameRows \subseteq stops
    /\ stops # stopsBefore

\* C4 as the specification states it: when the steps of an attempt have run
\* through the status update, the store holds exactly N Stop rows for the route
\* and direction, N the number of parsed records, and the route's status is
\* updated.
C4_ExactlyNRows ==
    (pc = "attempted" /\ calls = <<"updated">>) =>
        /\ Cardinality(RowsOf(stops, CurRoute, "go")) = Len(info_dataframe)
        /\ StatusOf(routes, CurRoute) = "updated"

\* C4 as amended: then the N parsed rows are stored, next to the rows that
\* earlier scrapes left under other sequence numbers, and the route's status is
\* updated when the route has a row in the route table.
C4_ParsedRowsStored ==
    (pc = "attempted" /\ calls = <<"updated">>) =>
        /\ Len(info_dataframe) > 0
        /\ Cardinality(FrameRows) = Len(info_dataframe)
        /\ FrameRows \subseteq RowsOf(stops, CurRoute, "go")
        /\ Cardinality(RowsOf(stops, CurRoute, "go"))
              = Len(info_dataframe)
                + Cardinality({r \in RowsOf(stopsBefore, CurRoute, "go") :
                                  StopKey(r) \notin FrameKeys})
        /\ StatusOf(routes, CurRoute) = IF statusBefore = "absent" THEN "absent" ELSE "updated"

\* C4 witness: two parsed stops, two rows, status updated.
C4_TwoStopsUpdated ==
    /\ pc = "attempted"
    /\ calls = <<"updated">>
    /\ Len(info_dataframe) = 2
    /\ Cardinality(RowsOf(stops, CurRoute, "go")) = 2
    /\ StatusOf(routes, CurRoute) = "updated"

\* C5: the store never holds two Stop rows with one key, and after a save each
\* key of the frame holds the values of the last record written for it.
C5_OneRowPerKey ==
    /\ \A r1, r2 \in stops : StopKey(r1) = StopKey(r2) => r1 = r2
    /\ pc = "saved" =>
          \A key \in FrameKeys : {r \in stops : StopKey(r) = key} = {LastFrameRow(key)}

\* C5 witness: a save has overwritten a key that held other values.
C5_KeyOverwritten ==
    /\ pc = "saved"
    /\ \E old \in stopsBefore : StopKey(old) \in FrameKeys /\ old \notin stops

\* C6 as the specification states it: after a save the rows stored for the route
\* and direction are exactly the records of the latest parse.
C6_ExactlyLatestParse ==
    pc = "saved" => RowsOf(stops, CurRoute, "go") = FrameRows

\* C6 as amended: after a save every record of the latest parse is stored under
\* its key, and the rows under keys the latest parse does not contain are left
\* as they were.
C6_UpsertKeepsOtherRows ==
    pc = "saved" =>
        stops = {r \in stopsBefore : StopKey(r) \notin FrameKeys} \cup FrameRows

\* C6 witness: a later parse with fewer sequence numbers was saved and the row
\* of the missing sequence number is still stored.
C6_StaleRowKept ==
    /\ pc = "saved"
    /\ Len(info_dataframe) = 1
    /\ \E r \in RowsOf(stops, CurRoute, "go") : StopKey(r) \notin FrameKeys

\* C7: an attempt on a stop page with non-numeric latitude text in one entry
\* persists no Stop row and ends with status failed.
C7_BadLatitudeFails ==
    (/\ pc = "attempted"
     /\ \E i \in 1..Len(info_content) : ~IsDigitsDots(info_content[i].latitude))
        => /\ stops = stopsBefore
           /\ calls = <<"failed">>

\* C8: no extraction returns normally from a page on which its pattern matched
\* nothing.
C8_ZeroMatchesRaise ==
    /\ (Driver /\ pc = "listParsed") => Len(FindAnchors(content)) > 0
    /\ (variant = "main" /\ pc = "listSaved") => Len(FindAnchors(content)) > 0
    /\ (Driver /\ pc = "parsed") => Len(FindStops(info_content, 1)) > 0
    /\ (variant = "interactive" /\ pc = "done" /\ Len(FindStops(info_content, 1)) = 0)
          => lookup.raised

\* C9: after the route list is saved, each identifier of the list has exactly
\* one row, carrying the name scraped last, and saving the same list again
\* leaves the table as it is.
C9_RouteUpsertLastWriteWins ==
    pc = "listSaved" =>
        /\ \A id \in FrameIds(dataframe) :
              /\ Cardinality({r \in routes : r.route_id = id}) = 1
              /\ \A r \in routes : r.route_id = id => r.route_name = LastName(dataframe, id)
        /\ routes = IF variant = "main" THEN AddRoutes(variant, routes, dataframe)
                    ELSE SaveRoutes(variant, routes, dataframe)

\* C10 as the specification states it: the read-back has as many records as the
\* saved frame has rows, and its (id, name) pairs are the pairs of the frame.
C10_RoundTrip ==
    pc = "readBack" =>
        /\ Len(db_dataframe) = Len(dataframe)
        /\ FramePairs(db_dataframe) = FramePairs(dataframe)

\* C10 as amended: the read-back holds one record per stored identifier; every
\* identifier of the saved frame is read back with the name of its last row in
\* the frame; every other record belongs to an identifier stored before; so the
\* read-back has the frame's length and pairs when the frame's identifiers are
\* distinct and no other identifier was stored.
C10_ReadBack ==
    pc = "readBack" =>
        /\ \A i, j \in 1..Len(db_dataframe) :
              db_dataframe[i].route_id = db_dataframe[j].route_id => i = j
        /\ \A id \in FrameIds(dataframe) :
              <<id, LastName(dataframe, id)>> \in FramePairs(db_dataframe)
        /\ FrameIds(db_dataframe) \subseteq FrameIds(dataframe) \cup idsBefore
        /\ (/\ Cardinality(FrameIds(dataframe)) = Len(dataframe)
            /\ idsBefore \subseteq FrameIds(dataframe))
              => /\ Len(db_dataframe) = Len(dataframe)
                 /\ FramePairs(db_dataframe) = FramePairs(dataframe)

\* C10 witness: two routes with distinct identifiers were saved to an empty
\* table and two records were read back.
C10_TwoRoutesReadBack ==
    /\ pc = "readBack"
    /\ Len(dataframe) = 2
    /\ Cardinality(FrameIds(dataframe)) = 2
    /\ idsBefore = {}
    /\ Len(db_dataframe) = 2

\* C11: a stop-page fetch whose click on the inbound toggle failed is not
\* aborted: it does not end by an exception, in any variant.
C11_ClickFailureNotFatal ==
    route_info.click_failed => lpc # "fetch_raised"

\* C12: when the batch has been selected from the store, it holds exactly the
\* routes whose stored status is pending.
C12_BatchIsPending ==
    (variant = "realtime" /\ pc = "loop" /\ idx = 1 /\ attempts = NoAttempts) =>
        {bus_list[i] : i \in 1..Len(bus_list)}
            = {r.route_id : r \in {q \in routes : StatusOf(routes, q.route_id) = "pending"}}

\* C13: parse_route_info on a well-formed stop page of N blocks returns N
\* records in document order, and the sequence number, stop id, latitude and
\* longitude of the records are numbers, in every variant.
C13_NumericRecords ==
    (/\ variant \in {"v00003", "realtime", "interactive"}
     /\ lpc = "parsed"
     /\ route_info.content \in WellFormedPages)
        => /\ Len(df.frame) = Len(route_info.content)
           /\ \A i \in 1..Len(df.frame) :
                 /\ df.frame[i].stop_name = route_info.content[i].stop_name
                 /\ df.frame[i].arrival_info = route_info.content[i].arrival_info
           /\ \A column \in {"stop_number", "stop_id", "latitude", "longitude"} :
                 RouteInfoDtypes(variant)[column] \in {"int", "float"}

\* C17: every record that parse_route_info returns is the record of one block
\* of the page: its six fields are the ones that block alone would give.
C17_FieldsFromOneBlock ==
    (variant \in {"v00003", "realtime", "interactive"} /\ lpc = "parsed") =>
        \A i \in 1..Len(df.frame) :
            \E j \in 1..Len(route_info.content) :
                LET alone == ParseRouteInfo(variant, <<route_info.content[j]>>, bus1,
                                            route_info.direction)
                IN /\ ~alone.raised
                   /\ Len(alone.frame) = 1
                   /\ df.frame[i] = alone.frame[1]

\* the sample a snapshot row carries, without its surrogate key
SampleOf(r) == [route_id     |-> r.route_id,
                direction    |-> r.direction,
                stop_number  |-> r.stop_number,
                stop_name    |-> r.stop_name,
                arrival_info |-> r.arrival_info]

\* C14: the snapshot table changes only by save_realtime_info, and a save of a
\* frame of k rows keeps every stored row as it is and adds exactly k rows,
\* one per row of the frame, under keys no stored row has; the keys of the
\* table stay distinct.
C14_AppendOnly ==
    [][/\ data_realtime_info' # data_realtime_info => (lpc = "parsed" /\ lpc' = "saved")
       /\ (lpc = "parsed" /\ lpc' = "saved") =>
             LET added == data_realtime_info' \ data_realtime_info
             IN /\ data_realtime_info \subseteq data_realtime_info'
                /\ Cardinality(added) = Len(df.frame)
                /\ \A r \in added : \A q \in data_realtime_info : r.id # q.id
                /\ \A r1, r2 \in data_realtime_info' : r1.id = r2.id => r1 = r2
                /\ \A i \in 1..Len(df.frame) : \E r \in added : SampleOf(r) = df.frame[i]
                /\ \A r \in added : \E i \in 1..Len(df.frame) : SampleOf(r) = df.frame[i]]_vars

\* C14 witness: the same sample was saved twice and the table holds two rows
\* for it.
C14_SameSampleTwice ==
    /\ lpc = "saved"
    /\ \E r1, r2 \in data_realtime_info : r1.id # r2.id /\ SampleOf(r1) = SampleOf(r2)

\* C15: a taipei_route_info constructed with a direction other than 'go' and
\* 'come' has raised in its constructor, before any page was fetched.
C15_DirectionChecked ==
    (/\ variant \in {"v00003", "realtime", "interactive"}
     /\ route_info.direction \notin {"none", "go", "come"})
        => (lpc = "init_raised" /\ ~route_info.goto)

\* C16: saving the route list leaves the status of every route that is already
\* stored as it is.
C16_ResaveKeepsStatus ==
    [][(Driver /\ pc = "listParsed" /\ pc' = "listSaved") =>
          \A r \in RouteIds :
              StatusOf(routes, r) # "absent" => StatusOf(routes', r) = StatusOf(routes, r)]_vars

\* C16 witness: the route list was saved again with a route on it that an
\* earlier run had marked updated or failed, and the mark is still there.
C16_MarkSurvivesResave ==
    /\ Driver /\ pc = "listSaved"
    /\ \E id \in FrameIds(dataframe) \cap idsBefore :
          StatusOf(routes, id) \in {"updated", "failed"}

=============================================================================
